---- MODULE Spec2Model ----
(***************************************************************************)
(* Error handling in the express application of src/src/index.ts and      *)
(* src/src/utils/ApiError.ts: the ApiError / NotFoundError classes, the    *)
(* asyncWrapper adapter, the middleware chain registered on the app (body  *)
(* parsers, GET /protected, POST /post, catch-all, error formatter) and    *)
(* the two process-wide hooks.                                             *)
(*                                                                         *)
(* A request is one record; the app is the sequence of layers in           *)
(* registration order; one action is one turn of the event loop: every     *)
(* call made synchronously (next -> next layer -> res.send) belongs to     *)
(* the action that starts it.  `Spec` runs the handlers index.ts           *)
(* registers; `SpecAny` runs the same chain with an arbitrary handler      *)
(* behind asyncWrapper and an arbitrary unwrapped async handler.           *)
(***************************************************************************)
EXTENDS Integers, Sequences, FiniteSets, TLC

VARIABLES reqs, proc

vars == <<reqs, proc>>

\* Number of requests the server receives in one run.
MaxReq == 2

ReqIds == 1..MaxReq

\* StatusCodes.NOT_FOUND and StatusCodes.BAD_REQUEST of http-status-codes.
NOT_FOUND == 404

BAD_REQUEST == 400

(***************************************************************************)
(* JavaScript values that travel as errors.  An absent property is <<>>,   *)
(* a present one is <<value>>; prim is the text of a primitive.            *)
(***************************************************************************)
Undefined ==
    [kind |-> "undefined", statusCode |-> <<>>, message |-> <<>>, stack |-> <<>>, prim |-> "undefined"]

Str(s) ==
    [kind |-> "string", statusCode |-> <<>>, message |-> <<>>, stack |-> <<>>, prim |-> s]

\* new Error(message): message and stack, no statusCode.
Error(message) ==
    [kind |-> "Error", statusCode |-> <<>>, message |-> <<message>>,
     stack |-> <<"Error: " \o message>>, prim |-> ""]

\* class ApiError extends Error: super(message); this.statusCode = statusCode.
ApiError(statusCode, message) ==
    [kind |-> "ApiError", statusCode |-> <<statusCode>>, message |-> <<message>>,
     stack |-> <<"Error: " \o message>>, prim |-> ""]

\* Mutant: the message leaves the path out.
NotFoundErrorNoPath(path) ==
    [ApiError(NOT_FOUND, "The requested path not found!") EXCEPT !.kind = "NotFoundError"]

\* class NotFoundError extends ApiError: super(NOT_FOUND, `The requested path ${path} not found!`).
NotFoundError(path) ==
    [ApiError(NOT_FOUND, "The requested path " \o path \o " not found!")
        EXCEPT !.kind = "NotFoundError"]

\* JavaScript truthiness of a value (what `if (err)` and `x || y` test).
Truthy(v) ==
    ~ \/ v.kind \in {"undefined", "null"}
      \/ (v.kind = "string" /\ v.prim = "")
      \/ (v.kind = "number" /\ v.prim \in {"0", "NaN"})

\* err.name: the classes above do not override Error.prototype.name.
NameOf(v) ==
    IF v.kind \in {"Error", "ApiError", "NotFoundError"} THEN "Error" ELSE v.kind

TextOf(opt) == IF opt = <<>> THEN "undefined" ELSE opt[1]

(***************************************************************************)
(* Requests and responses.                                                 *)
(***************************************************************************)
Methods == {"GET", "POST"}

Paths == {"/protected", "/post", "/unknown-path"}

\* What the request carries: no body, a JSON body that parses, a JSON body that does not.
Bodies == {"none", "json", "badjson"}

\* A request that has not arrived yet.
NoReq ==
    [arrived |-> FALSE, method |-> "", path |-> "", body |-> "", idx |-> 1,
     reading |-> FALSE, res |-> <<>>, destroyed |-> FALSE, ran |-> <<>>,
     fmtArgs |-> <<>>, nextCalls |-> <<>>, handler |-> "", promise |-> "none",
     reason |-> Undefined]

NewReq(method, path, body) ==
    [NoReq EXCEPT !.arrived = TRUE, !.method = method, !.path = path, !.body = body]

\* res.headersSent
HeadersSent(q) == q.res # <<>>

\* res.status(status).send(body) throws when the headers are already sent
\* (ERR_HTTP_HEADERS_SENT) or the status is no HTTP status (ERR_HTTP_INVALID_STATUS_CODE).
SendThrows(q, status) == HeadersSent(q) \/ status < 100 \/ status > 999

SendError(q, status) ==
    IF HeadersSent(q)
    THEN [Error("Cannot set headers after they are sent to the client") EXCEPT !.kind = "HeadersSentError"]
    ELSE [Error("Invalid status code: " \o ToString(status)) EXCEPT !.kind = "RangeError"]

\* res.status(status).send(body) when it does not throw: the response goes on the wire.
Send(q, status, body, by) ==
    [q EXCEPT !.res = Append(@, [status |-> status, body |-> body, by |-> by])]

\* JSON body of a response: an undefined property is left out by JSON.stringify.
Body(success, message, stack) ==
    [success |-> success, message |-> message, stack |-> stack]

(***************************************************************************)
(* The error-formatting middleware, index.ts lines 33-41.                  *)
(***************************************************************************)
\* Mutant: the first version of the middleware, which always answers 500.
statusCodeAlways500(err) == 500

\* Mutant: the default of the || is 400 instead of 500.
statusCodeDefault400(err) ==
    IF err.statusCode # <<>> /\ err.statusCode[1] # 0 THEN err.statusCode[1] ELSE 400

\* const statusCode = err.statusCode || 500;
statusCodeOf(err) ==
    IF err.statusCode # <<>> /\ err.statusCode[1] # 0 THEN err.statusCode[1] ELSE 500

\* { success: false, message: err.message, stack: err.stack }
errorBody(err) == Body(<<FALSE>>, err.message, err.stack)

\* The middleware: records its argument, then res.status(statusCode).send(body).
\* threw is <<e>> when send throws e, else <<>>.
errorHandler(q, err) ==
    LET q1 == [q EXCEPT !.fmtArgs = Append(@, err), !.ran = Append(@, "errorHandler")]
        statusCode == statusCodeOf(err)
    IN  IF SendThrows(q1, statusCode)
        THEN [q |-> q1, threw |-> <<SendError(q1, statusCode)>>]
        ELSE [q |-> Send(q1, statusCode, errorBody(err), "errorHandler"), threw |-> <<>>]

(***************************************************************************)
(* express: the handler of last resort, run when the chain is exhausted.   *)
(***************************************************************************)
FinalHandler(q, err) ==
    LET q1 == [q EXCEPT !.ran = Append(@, "finalhandler")]
        status == IF ~Truthy(err) THEN 404
                  ELSE IF err.statusCode # <<>> /\ err.statusCode[1] >= 400 /\ err.statusCode[1] < 600
                       THEN err.statusCode[1] ELSE 500
        message == IF ~Truthy(err) THEN "Cannot " \o q.method \o " " \o q.path
                   ELSE TextOf(err.stack)
    IN  IF HeadersSent(q)
        THEN IF Truthy(err) THEN [q1 EXCEPT !.destroyed = TRUE] ELSE q1
        ELSE Send(q1, status, Body(<<>>, <<message>>, <<>>), "finalhandler")

(***************************************************************************)
(* The chain, in registration order (index.ts lines 9-41).                 *)
(***************************************************************************)
Layer(kind, name, method, path, wrapped) ==
    [kind |-> kind, name |-> name, method |-> method, path |-> path, wrapped |-> wrapped]

\* Mutant: the catch-all is registered before the routes.
AppStackCatchAllFirst ==
    << Layer("use", "json", "", "", FALSE),
       Layer("use", "urlencoded", "", "", FALSE),
       Layer("use", "catchAll", "", "", FALSE),
       Layer("route", "GET /protected", "GET", "/protected", TRUE),
       Layer("route", "POST /post", "POST", "/post", FALSE),
       Layer("error", "errorHandler", "", "", FALSE) >>

AppStack ==
    << Layer("use", "json", "", "", FALSE),
       Layer("use", "urlencoded", "", "", FALSE),
       Layer("route", "GET /protected", "GET", "/protected", TRUE),
       Layer("route", "POST /post", "POST", "/post", FALSE),
       Layer("use", "catchAll", "", "", FALSE),
       Layer("error", "errorHandler", "", "", FALSE) >>

\* A route layer takes the request when method and path are the route's.
MatchRoute(layer, method, path) == layer.method = method /\ layer.path = path

\* The registered route a request matches, if any.
Matched(method, path) ==
    {i \in 1..Len(AppStack) : AppStack[i].kind = "route" /\ MatchRoute(AppStack[i], method, path)}

\* bodyParser.json() on a request with a JSON body that does not parse: next(err), err.statusCode = 400.
ParseError ==
    [Error("Unexpected token in JSON") EXCEPT !.kind = "SyntaxError", !.statusCode = <<BAD_REQUEST>>]

\* A body parser reads the body (asynchronously) only when there is one of its type.
ReadsBody(layer, q) == layer.name = "json" /\ q.body \in {"json", "badjson"}

\* next(arg) called by `by`: kept as the request's history.
Called(q, by, arg) == [q EXCEPT !.nextCalls = Append(@, [by |-> by, arg |-> arg])]

(***************************************************************************)
(* express: next(arg).  The router walks the layers from q.idx on; a       *)
(* falsy arg or 'route' is no error, 'router' leaves the router; with an   *)
(* error pending only error middleware runs, without one only the others.  *)
(* A layer is visited at most once per request: idx only grows.            *)
(* hb is what the route handler does synchronously if this walk invokes    *)
(* it: send (a response it emits itself) and fwd (a next(v) it calls).     *)
(***************************************************************************)
RECURSIVE RouterNext(_, _, _)
Walk(q, arg, hb) ==
    LET layerError == IF arg = Str("route") \/ ~Truthy(arg) THEN Undefined ELSE arg
    IN  IF layerError = Str("router") THEN FinalHandler(q, Undefined)
        ELSE IF q.idx > Len(AppStack) THEN FinalHandler(q, layerError)
        ELSE
          LET layer == AppStack[q.idx]
              q1 == [q EXCEPT !.idx = @ + 1]
              hasErr == Truthy(layerError)
          IN  CASE layer.kind = "route" ->
                     IF hasErr \/ ~MatchRoute(layer, q.method, q.path)
                     THEN RouterNext(q1, layerError, hb)
                     ELSE \* the handler runs: it may send, it may call next, its promise is pending
                       LET q2 == [q1 EXCEPT !.ran = Append(@, layer.name),
                                            !.handler = layer.name,
                                            !.promise = "pending"]
                           q3 == IF hb.send = <<>> THEN q2
                                 ELSE Send(q2, hb.send[1].status, hb.send[1].body, "handler")
                       IN  IF hb.fwd = <<>> THEN q3
                           ELSE RouterNext(Called(q3, "handler", hb.fwd[1]), hb.fwd[1], hb)
                [] layer.kind = "use" ->
                     IF hasErr THEN RouterNext(q1, layerError, hb)
                     ELSE IF layer.name = "catchAll"
                     THEN \* (req, res, next) => next(new NotFoundError(req.path))
                       LET q2 == [q1 EXCEPT !.ran = Append(@, "catchAll")]
                       IN  RouterNext(Called(q2, "catchAll", NotFoundError(q.path)),
                                      NotFoundError(q.path), hb)
                     ELSE IF ReadsBody(layer, q1)
                     THEN [q1 EXCEPT !.reading = TRUE]
                     ELSE RouterNext(q1, Undefined, hb)
                [] OTHER -> \* error middleware; what it throws, express passes to next
                     IF ~hasErr THEN RouterNext(q1, layerError, hb)
                     ELSE LET r == errorHandler(q1, layerError)
                          IN  IF r.threw = <<>> THEN r.q
                              ELSE RouterNext(r.q, r.threw[1], hb)

\* next(arg): the walk above, its arguments evaluated once.
RouterNext(q0, arg0, hb) ==
    CHOOSE out \in {Walk(q, arg, hb) : q \in {q0}, arg \in {arg0}} : TRUE

\* The body has been read: bodyParser.json() parses it and calls next() or next(err).
BodyParsed(q, hb) ==
    LET q1 == [q EXCEPT !.reading = FALSE]
    IN  IF q.body = "badjson"
        THEN RouterNext(Called(q1, "json", ParseError), ParseError, hb)
        ELSE RouterNext(q1, Undefined, hb)

(***************************************************************************)
(* Handlers.  A handler is what it does synchronously when invoked (sync:  *)
(* the send and the next call it makes) and how its promise settles        *)
(* (outcomes).                                                             *)
(***************************************************************************)
Sync(send, fwd) == [send |-> send, fwd |-> fwd]

NoHandler == Sync(<<>>, <<>>)

Fulfil == [kind |-> "fulfil", value |-> Undefined]

Reject(v) == [kind |-> "reject", value |-> v]

\* Mutant: the line commented out in the handler, ApiError(UNAUTHORIZED, ...).
customFunctionUnauthorized == ApiError(401, "You are not authorized to access this!")

\* const customFunction = async () => { throw new ApiError(BAD_REQUEST, ...) }
customFunction == ApiError(BAD_REQUEST, "This is just a bad request!")

\* async (req, res) => { await customFunction(); }: sends nothing, calls no next, rejects.
protectedHandler == [sync |-> {NoHandler}, outcomes |-> {Reject(customFunction)}]

\* async (req, res) => res.status(200).send({ message: 'Hello World from post!' })
postHandler ==
    [sync |-> {Sync(<<[status |-> 200, body |-> Body(<<>>, <<"Hello World from post!">>, <<>>)]>>, <<>>)},
     outcomes |-> {Fulfil}]

\* The handlers index.ts registers, by route.
IndexHandlers == [protected |-> protectedHandler, post |-> postHandler]

\* Failure values of an arbitrary wrapped handler: error objects with a usable, a zero
\* and an invalid statusCode, a plain Error, a truthy and a falsy primitive, and the two
\* strings express reads as control signals.
FailureValues ==
    { ApiError(BAD_REQUEST, "bad"), ApiError(0, "zero"), ApiError(99, "low"),
      Error("boom"), Str("boom"), Undefined, Str("route"), Str("router") }

\* What a handler may emit itself.
OwnResponse == [status |-> 200, body |-> Body(<<>>, <<"done">>, <<>>)]

\* handler: AsyncFunction, any function (req, res, next) => Promise<any>: it may send,
\* it may call next() or next(err) itself, and its promise fulfils, rejects or stays pending.
anyWrappedHandler ==
    [sync |-> {Sync(s, f) : s \in {<<>>, <<OwnResponse>>},
                            f \in {<<>>, <<Undefined>>, <<ApiError(401, "forwarded")>>}},
     outcomes |-> {Fulfil} \cup {Reject(v) : v \in FailureValues}]

\* An async handler registered without asyncWrapper that does not call next itself.
anyUnwrappedHandler ==
    [sync |-> {Sync(s, <<>>) : s \in {<<>>, <<OwnResponse>>}},
     outcomes |-> {Fulfil, Reject(Error("boom")), Reject(ApiError(BAD_REQUEST, "bad"))}]

AnyHandlers == [protected |-> anyWrappedHandler, post |-> anyUnwrappedHandler]

\* The handler a request would reach, by the route it matches.
HandlerOf(H, name) ==
    IF name = "GET /protected" THEN H.protected
    ELSE IF name = "POST /post" THEN H.post
    ELSE [sync |-> {NoHandler}, outcomes |-> {}]

RouteOf(method, path) ==
    IF Matched(method, path) = {} THEN ""
    ELSE AppStack[CHOOSE i \in Matched(method, path) : TRUE].name

IsWrapped(name) == \E i \in 1..Len(AppStack) : AppStack[i].name = name /\ AppStack[i].wrapped

(***************************************************************************)
(* asyncWrapper, ApiError.ts lines 23-25:                                  *)
(*   Promise.resolve(handler(req, res, next)).catch((err) => next(err))    *)
(* q is the request once the handler's promise has settled as o.  The      *)
(* result holds the request and, as unhandled, a rejection nobody caught.  *)
(***************************************************************************)
\* Mutant: the wrapper without its catch.
asyncWrapperNoCatch(q, o) ==
    [q |-> q, unhandled |-> IF o.kind = "reject" THEN <<o.value>> ELSE <<>>]

\* Mutant: the wrapper also calls next() when the handler succeeds.
asyncWrapperNextOnSuccess(q, o) ==
    [q |-> RouterNext(Called(q, "asyncWrapper", o.value), o.value, NoHandler), unhandled |-> <<>>]

asyncWrapper(q, o) ==
    IF o.kind = "reject"
    THEN [q |-> RouterNext(Called(q, "asyncWrapper", o.value), o.value, NoHandler),
          unhandled |-> <<>>]
    ELSE [q |-> q, unhandled |-> <<>>]

\* A handler registered as it is: nothing observes its promise.
Unwrapped(q, o) ==
    [q |-> q, unhandled |-> IF o.kind = "reject" THEN <<o.value>> ELSE <<>>]

(***************************************************************************)
(* The process and its hooks, index.ts lines 51-63.                        *)
(***************************************************************************)
ProcInit == [alive |-> TRUE, exitCode |-> <<>>, log |-> <<>>, hooks |-> <<>>]

\* process.exit(code)
Exit(p, code) == [p EXCEPT !.alive = FALSE, !.exitCode = <<code>>]

\* Mutant: the hook logs and lets the process live.
unhandledRejectionNoExit(p, reason, promise) ==
    [p EXCEPT !.hooks = Append(@, [hook |-> "unhandledRejection", arg |-> reason, promise |-> promise]),
              !.log = @ \o <<NameOf(reason) \o " " \o TextOf(reason.message),
                             "UNHANDLED REJECTION! Shutting down...">>]

\* process.on('unhandledRejection', (reason: Error, promise) => { log; log; process.exit(1) })
\* promise is the id of the request whose handler's promise was rejected.
unhandledRejection(p, reason, promise) ==
    Exit([p EXCEPT !.hooks = Append(@, [hook |-> "unhandledRejection", arg |-> reason, promise |-> promise]),
                   !.log = @ \o <<NameOf(reason) \o " " \o TextOf(reason.message),
                                  "UNHANDLED REJECTION! Shutting down...">>], 1)

\* process.on('uncaughtException', (err: Error) => { log; log; process.exit(1) })
uncaughtException(p, err) ==
    Exit([p EXCEPT !.hooks = Append(@, [hook |-> "uncaughtException", arg |-> err, promise |-> 0]),
                   !.log = @ \o <<NameOf(err) \o " " \o TextOf(err.message),
                                  "UNCAUGHT EXCEPTION! Shutting down...">>], 1)

(***************************************************************************)
(* Actions: one turn of the event loop each.  H is the table of handlers.  *)
(***************************************************************************)
\* A request arrives (in order of id) and the chain runs until it answers or waits.
ReceiveReq(r, H, B) ==
    /\ proc.alive
    /\ ~reqs[r].arrived
    /\ \A i \in 1..(r - 1) : reqs[i].arrived
    /\ \E method \in Methods, path \in Paths, body \in B :
         \E hb \in HandlerOf(H, RouteOf(method, path)).sync :
            reqs' = [reqs EXCEPT ![r] = RouterNext(NewReq(method, path, body), Undefined, hb)]
    /\ UNCHANGED proc

\* The body of a request has been read; the chain goes on from the parser.
BodyReadReq(r, H) ==
    /\ proc.alive
    /\ reqs[r].reading
    /\ \E hb \in HandlerOf(H, RouteOf(reqs[r].method, reqs[r].path)).sync :
         reqs' = [reqs EXCEPT ![r] = BodyParsed(reqs[r], hb)]
    /\ UNCHANGED proc

\* The promise of a request's handler settles.
SettleReq(r, H) ==
    /\ proc.alive
    /\ reqs[r].promise = "pending"
    /\ \E o \in HandlerOf(H, reqs[r].handler).outcomes :
         LET q == [reqs[r] EXCEPT !.promise = IF o.kind = "reject" THEN "rejected" ELSE "fulfilled",
                                  !.reason = o.value]
             w == IF IsWrapped(q.handler) THEN asyncWrapper(q, o) ELSE Unwrapped(q, o)
         IN  /\ reqs' = [reqs EXCEPT ![r] = w.q]
             /\ proc' = IF w.unhandled = <<>> THEN proc
                        ELSE unhandledRejection(proc, w.unhandled[1], r)

Init ==
    /\ reqs = [r \in ReqIds |-> NoReq]
    /\ proc = ProcInit

\* index.ts as registered.
Receive == \E r \in ReqIds : ReceiveReq(r, IndexHandlers, Bodies)

BodyRead == \E r \in ReqIds : BodyReadReq(r, IndexHandlers)

Settle == \E r \in ReqIds : SettleReq(r, IndexHandlers)

Next == Receive \/ BodyRead \/ Settle

Spec == Init /\ [][Next]_vars

\* The event loop runs every callback that is ready: a body that has been read is
\* parsed, a settled promise runs its reactions.
FairSpec ==
    /\ Spec
    /\ \A r \in ReqIds : WF_vars(BodyReadReq(r, IndexHandlers)) /\ WF_vars(SettleReq(r, IndexHandlers))

\* The same chain with arbitrary handlers on the two routes.
\* The requests of this specification carry no body: it is the handlers that vary.
AnyReceive == \E r \in ReqIds : ReceiveReq(r, AnyHandlers, {"none"})

AnySettle == \E r \in ReqIds : SettleReq(r, AnyHandlers)

\* A synchronous failure outside the pipeline that nothing catches.
UncaughtException ==
    /\ proc.alive
    /\ \E err \in {Error("boom")} : proc' = uncaughtException(proc, err)
    /\ UNCHANGED reqs

NextAny == AnyReceive \/ AnySettle \/ UncaughtException

SpecAny == Init /\ [][NextAny]_vars

(***************************************************************************)
(* Vocabulary of the properties.                                           *)
(***************************************************************************)
Routes == {"GET /protected", "POST /post"}

CallsBy(q, who) == {i \in DOMAIN q.nextCalls : q.nextCalls[i].by \in who}

Times(q, stage) == Cardinality({i \in DOMAIN q.ran : q.ran[i] = stage})

Ran(q, stage) == Times(q, stage) > 0

\* The response the formatting stage emitted for q, as a set (empty if it emitted none).
Formatted(q) == {i \in DOMAIN q.res : q.res[i].by = "errorHandler"}

\* next(arg) with such an arg passes control on without an error.
PassesOn(arg) == ~Truthy(arg) \/ arg = Str("route")

\* The wrapped handler failed without having called next itself.
WrappedFailed(q) ==
    /\ q.handler = "GET /protected"
    /\ q.promise = "rejected"
    /\ CallsBy(q, {"handler"}) = {}

\* The process was not ended on account of request r.
NotTerminatedBy(r) ==
    \A i \in DOMAIN proc.hooks : proc.hooks[i].promise # r

(***************************************************************************)
(* C1.  For any handler wrapped by asyncWrapper and any failure value, if  *)
(* the wrapped computation fails, the formatting stage is invoked exactly  *)
(* once for that request with that same failure value and the process is   *)
(* not terminated by it.  Stated for handlers that do not call next        *)
(* themselves.                                                             *)
(***************************************************************************)
C1_FailureReachesFormatter ==
    \A r \in ReqIds :
        WrappedFailed(reqs[r]) =>
            /\ reqs[r].fmtArgs = <<reqs[r].reason>>
            /\ NotTerminatedBy(r)

(***************************************************************************)
(* C2.  For any ApiError with statusCode S and message M forwarded to the  *)
(* formatting stage, the response that stage emits has status exactly S    *)
(* and body.message exactly M: as claimed, for every integer S.            *)
(***************************************************************************)
ApiErrorFormattedAs(q, err) ==
    \A i \in Formatted(q) :
        /\ q.res[i].status = err.statusCode[1]
        /\ q.res[i].body.message = err.message

C3_DefaultStatus500 ==
    \A r \in ReqIds : \A i \in DOMAIN reqs[r].fmtArgs :
        LET err == reqs[r].fmtArgs[i] IN
        (err.statusCode = <<>> \/ err.statusCode = <<0>>) =>
            \A j \in Formatted(reqs[r]) :
                /\ reqs[r].res[j].status = 500
                /\ reqs[r].res[j].body.success = <<FALSE>>
                /\ reqs[r].res[j].body.message = err.message

\* A plain Error, a thrown string and an ApiError with statusCode 0 have each been answered.
C3_Witness ==
    /\ \E r \in ReqIds : reqs[r].fmtArgs = <<Error("boom")>> /\ Formatted(reqs[r]) = {1}
    /\ \E r \in ReqIds :
          /\ reqs[r].fmtArgs \in {<<Str("boom")>>, <<ApiError(0, "zero")>>}
          /\ Formatted(reqs[r]) = {1}

(***************************************************************************)
(* C4.  For every request whose method and path match no registered route  *)
(* the catch-all constructs exactly one NotFoundError for the request's     *)
(* path P and forwards it to the formatting stage, so that the response has *)
(* status 404 and message "The requested path P not found!", each request   *)
(* on its own.                                                              *)
(***************************************************************************)
NotFoundAnswer(q) ==
    /\ Cardinality(CallsBy(q, {"catchAll"})) = 1
    /\ \A i \in CallsBy(q, {"catchAll"}) :
          /\ q.nextCalls[i].arg.kind = "NotFoundError"
          /\ q.fmtArgs = <<q.nextCalls[i].arg>>
    /\ Len(q.res) = 1
    /\ q.res[1].status = 404
    /\ q.res[1].body.message = <<"The requested path " \o q.path \o " not found!">>

\* As claimed: every unmatched request that has been answered.
C4_UnmatchedIs404 ==
    \A r \in ReqIds :
        (reqs[r].arrived /\ Matched(reqs[r].method, reqs[r].path) = {} /\ reqs[r].res # <<>>)
            => NotFoundAnswer(reqs[r])

\* C4, amended: every unmatched request that the body parsers pass on; it is answered
\* as soon as the parsers are through.
C4_UnmatchedParsedIs404 ==
    \A r \in ReqIds :
        (/\ reqs[r].arrived
         /\ Matched(reqs[r].method, reqs[r].path) = {}
         /\ reqs[r].body # "badjson"
         /\ ~reqs[r].reading)
            => NotFoundAnswer(reqs[r])

\* Two unmatched requests in a row, each answered 404 with its own path.
C4_Witness ==
    /\ reqs[1].method = "GET" /\ reqs[1].path = "/unknown-path"
    /\ reqs[1].res # <<>>
    /\ reqs[1].res[1].body.message = <<"The requested path /unknown-path not found!">>
    /\ reqs[2].method = "POST" /\ reqs[2].path = "/protected" /\ reqs[2].body = "json"
    /\ reqs[2].res # <<>>
    /\ reqs[2].res[1].status = 404
    /\ reqs[2].res[1].body.message = <<"The requested path /protected not found!">>

(***************************************************************************)
(* C5.  Every GET /protected request whose wrapped handler throws          *)
(* ApiError(400, "This is just a bad request!") ends with a response of    *)
(* status 400 and body {success: false, message, stack}; the catch-all is  *)
(* not run for it and no 404 is produced.                                  *)
(***************************************************************************)
BadRequestAnswer(q) ==
    /\ Len(q.res) = 1
    /\ q.res[1].status = 400
    /\ q.res[1].body.success = <<FALSE>>
    /\ q.res[1].body.message = <<"This is just a bad request!">>
    /\ q.res[1].body.stack # <<>>

PostAnswer(q) ==
    /\ q.res = <<[status |-> 200, body |-> Body(<<>>, <<"Hello World from post!">>, <<>>),
                  by |-> "handler"]>>
    /\ ~Ran(q, "catchAll")
    /\ ~Ran(q, "errorHandler")

\* As claimed: whatever the body.
C6_PostAnyBody ==
    \A r \in ReqIds :
        (reqs[r].method = "POST" /\ reqs[r].path = "/post" /\ reqs[r].res # <<>>)
            => PostAnswer(reqs[r])

\* C6, amended: every POST /post request with no body or a body that parses; it is
\* answered as soon as the parsers are through.
C6_PostParsedBody ==
    \A r \in ReqIds :
        (/\ reqs[r].method = "POST" /\ reqs[r].path = "/post"
         /\ reqs[r].body # "badjson"
         /\ ~reqs[r].reading)
            => PostAnswer(reqs[r])

\* A POST /post with a JSON body has been answered by its handler.
C6_Witness ==
    \E r \in ReqIds :
        /\ reqs[r].method = "POST" /\ reqs[r].path = "/post" /\ reqs[r].body = "json"
        /\ reqs[r].handler = "POST /post"
        /\ reqs[r].res # <<>>
        /\ reqs[r].res[1].status = 200

(***************************************************************************)
(* C7.  Within one request the stages run in the strict order route        *)
(* matching, then (only if nothing matched) catch-all, then error          *)
(* formatting; the formatting stage is entered at most once per request,   *)
(* for any handler behaviour, also one that forwards an error and then     *)
(* fails.                                                                  *)
(***************************************************************************)
Rank(stage) ==
    IF stage \in Routes THEN 1
    ELSE IF stage = "catchAll" THEN 2
    ELSE IF stage = "errorHandler" THEN 3
    ELSE 0

\* Route handler, catch-all and formatter are entered in that order, each at most once.
StrictOrder(q) ==
    \A i, j \in DOMAIN q.ran :
        (i < j /\ Rank(q.ran[i]) > 0 /\ Rank(q.ran[j]) > 0) => Rank(q.ran[i]) < Rank(q.ran[j])

\* As claimed: the catch-all runs only for a request that matches no route.
C7_CatchAllOnlyUnmatched ==
    \A r \in ReqIds :
        /\ StrictOrder(reqs[r])
        /\ Ran(reqs[r], "catchAll") => Matched(reqs[r].method, reqs[r].path) = {}

\* C7, amended: the catch-all runs only for a request that matches no route or whose
\* handler passed control on: next called with no argument, a falsy value or 'route',
\* by the handler itself or by asyncWrapper forwarding such a failure value.
C7_CatchAllUnmatchedOrPassedOn ==
    \A r \in ReqIds :
        /\ StrictOrder(reqs[r])
        /\ Ran(reqs[r], "catchAll") =>
              \/ Matched(reqs[r].method, reqs[r].path) = {}
              \/ /\ reqs[r].ran[1] = reqs[r].handler
                 /\ \E i \in CallsBy(reqs[r], {"handler", "asyncWrapper"}) :
                        PassesOn(reqs[r].nextCalls[i].arg)

\* A wrapped handler forwarded an error, which was formatted, and then failed with
\* another value: the formatter ran once, the second forward ended in the final handler.
C7_Witness ==
    \E r \in ReqIds :
        /\ reqs[r].promise = "rejected"
        /\ reqs[r].reason = Error("boom")
        /\ reqs[r].fmtArgs = <<ApiError(401, "forwarded")>>
        /\ Cardinality(CallsBy(reqs[r], {"handler", "asyncWrapper"})) = 2
        /\ reqs[r].ran = <<"GET /protected", "errorHandler", "finalhandler">>

(***************************************************************************)
(* C8.  A failure of an async handler registered without asyncWrapper that *)
(* does not forward the error itself never reaches the formatting stage    *)
(* and produces no error response; it is delivered to the                  *)
(* unhandledRejection hook, which logs and ends the process with exit code *)
(* 1; an uncaught synchronous failure outside the pipeline reaches the     *)
(* uncaughtException hook, which logs and exits with code 1; after either  *)
(* hook no further request is served.                                      *)
(***************************************************************************)
UnwrappedFailed(q) == q.handler = "POST /post" /\ q.promise = "rejected"

HookRan(hook, arg, promise) ==
    \E i \in DOMAIN proc.hooks :
        proc.hooks[i] = [hook |-> hook, arg |-> arg, promise |-> promise]

C8_UnwrappedFailureExits ==
    /\ [](\A r \in ReqIds :
            UnwrappedFailed(reqs[r]) =>
                /\ reqs[r].fmtArgs = <<>>
                /\ \A i \in DOMAIN reqs[r].res : reqs[r].res[i].by = "handler"
                /\ HookRan("unhandledRejection", reqs[r].reason, r))
    /\ [](proc.hooks # <<>> =>
                /\ ~proc.alive
                /\ proc.exitCode = <<1>>
                /\ Len(proc.hooks) = 1
                /\ Len(proc.log) = 2)
    /\ [][~proc.alive => UNCHANGED vars]_vars

\* An unwrapped handler failed and the process exited with code 1 while another
\* request was still waiting for its handler.
C8_Witness ==
    /\ UnwrappedFailed(reqs[1])
    /\ reqs[1].res = <<>>
    /\ proc.exitCode = <<1>>
    /\ proc.log[2] = "UNHANDLED REJECTION! Shutting down..."
    /\ reqs[2].promise = "pending"
    /\ reqs[2].res = <<>>

(***************************************************************************)
(* C9.  When the handler wrapped by asyncWrapper completes successfully    *)
(* the adapter performs no action: it calls no next, emits or alters no    *)
(* response, and no stage runs on its account; a response for the request  *)
(* exists only if the wrapped handler emitted one itself.                  *)
(***************************************************************************)
WrappedSucceeds(r) ==
    /\ reqs[r].handler = "GET /protected"
    /\ reqs[r].promise = "pending"
    /\ reqs'[r].promise = "fulfilled"

WrappedSucceeded(q) == q.handler = "GET /protected" /\ q.promise = "fulfilled"

\* The step on which the wrapped handler succeeds changes nothing else, and no next
\* call of the request is the adapter's.
AdapterIdleOnSuccess ==
    /\ [][\A r \in ReqIds :
            WrappedSucceeds(r) =>
                /\ reqs'[r] = [reqs[r] EXCEPT !.promise = "fulfilled"]
                /\ proc' = proc]_vars
    /\ [](\A r \in ReqIds :
            WrappedSucceeded(reqs[r]) => CallsBy(reqs[r], {"asyncWrapper"}) = {})

\* As claimed: after a success every response is one the handler emitted itself.
C9_ResponseOnlyFromHandler ==
    /\ AdapterIdleOnSuccess
    /\ [](\A r \in ReqIds :
            WrappedSucceeded(reqs[r]) =>
                \A i \in DOMAIN reqs[r].res : reqs[r].res[i].by = "handler")

\* C9, amended: after a success every response is one the handler emitted itself or
\* one that a next call of the handler itself led to.
C9_ResponseFromHandlerOrItsNext ==
    /\ AdapterIdleOnSuccess
    /\ [](\A r \in ReqIds :
            WrappedSucceeded(reqs[r]) =>
                \A i \in DOMAIN reqs[r].res :
                    \/ reqs[r].res[i].by = "handler"
                    \/ CallsBy(reqs[r], {"handler"}) # {})

\* A wrapped handler that sent nothing and called nothing has succeeded: no response,
\* no stage after it; and one that answered itself has succeeded with its own response.
C9_Witness ==
    /\ reqs[1].handler = "GET /protected" /\ reqs[1].promise = "fulfilled"
    /\ reqs[1].res = <<>> /\ reqs[1].ran = <<"GET /protected">>
    /\ reqs[2].handler = "GET /protected" /\ reqs[2].promise = "fulfilled"
    /\ reqs[2].res # <<>> /\ reqs[2].res[1].by = "handler"

(***************************************************************************)
(* C10.  For the pipeline as registered in index.ts every request, of any  *)
(* method and path and in any interleaving with the others, eventually     *)
(* receives exactly one response, never two, and handling it does not end  *)
(* the process.                                                            *)
(***************************************************************************)
C10_ExactlyOneResponse ==
    /\ [](/\ proc.alive
          /\ \A r \in ReqIds :
                /\ Len(reqs[r].res) <= 1
                /\ ~reqs[r].destroyed
                /\ ~Ran(reqs[r], "finalhandler"))
    /\ \A r \in ReqIds : reqs[r].arrived ~> (Len(reqs[r].res) = 1)

\* A GET /protected that waited for its body and its handler and a POST /post have both
\* been answered, once each.
C10_Witness ==
    /\ reqs[1].path = "/protected" /\ reqs[1].body = "json"
    /\ Len(reqs[1].res) = 1 /\ reqs[1].res[1].status = 400
    /\ reqs[2].path = "/post" /\ reqs[2].method = "POST"
    /\ Len(reqs[2].res) = 1 /\ reqs[2].res[1].status = 200
    /\ proc.alive

====
